---- MODULE Spec2Model ----
(***************************************************************************)
(* Urdu to Speech AI backend (src/main.py): the synthesis endpoint         *)
(* api_synthesize and the response normalizer call_orator_tts_bytes.       *)
(*                                                                         *)
(* A state is one synthesis request on its way through the handler: the    *)
(* handler runs to its next await (the POST to the provider, the GET of an *)
(* audio URL), the network answers, and the handler runs on to its return  *)
(* or raise.  Text is a sequence of one-character strings, bytes are a     *)
(* sequence of integers 0..255, and a Python/JSON value is a tagged record *)
(* [t |-> type, v |-> value].                                              *)
(***************************************************************************)
EXTENDS Integers, Sequences, FiniteSets, TLC

(***************************************************************************)
(* Text and bytes                                                          *)
(***************************************************************************)

\* The printable ASCII characters of code points 32..95, in order.
PrintableLow ==
  << " ", "!", "\"", "#", "$", "%", "&", "'", "(", ")", "*", "+", ",", "-", ".", "/",
     "0", "1", "2", "3", "4", "5", "6", "7", "8", "9", ":", ";", "<", "=", ">", "?",
     "@", "A", "B", "C", "D", "E", "F", "G", "H", "I", "J", "K", "L", "M", "N", "O",
     "P", "Q", "R", "S", "T", "U", "V", "W", "X", "Y", "Z", "[", "\\", "]", "^", "_" >>

\* The printable ASCII characters of code points 97..126, in order.
PrintableHigh ==
  << "a", "b", "c", "d", "e", "f", "g", "h", "i", "j", "k", "l", "m", "n", "o",
     "p", "q", "r", "s", "t", "u", "v", "w", "x", "y", "z", "{", "|", "}", "~" >>

\* The characters a text is made of here: printable ASCII, tab and newline.
Chars ==
  { PrintableLow[i] : i \in 1..Len(PrintableLow) }
    \cup { PrintableHigh[i] : i \in 1..Len(PrintableHigh) } \cup {"\t", "\n"}

\* ord() of a character.
OrdTable ==
  [ c \in Chars |->
      IF c = "\t" THEN 9
      ELSE IF c = "\n" THEN 10
      ELSE IF \E i \in 1..Len(PrintableLow) : PrintableLow[i] = c
      THEN 31 + (CHOOSE i \in 1..Len(PrintableLow) : PrintableLow[i] = c)
      ELSE 96 + (CHOOSE i \in 1..Len(PrintableHigh) : PrintableHigh[i] = c) ]

\* chr() of an ASCII byte.
Chr(b) ==
  IF b = 9 THEN "\t"
  ELSE IF b = 10 THEN "\n"
  ELSE IF b < 96 THEN PrintableLow[b - 31]
  ELSE PrintableHigh[b - 96]

\* str.encode(): the bytes of an ASCII text.
RECURSIVE Encode(_)
Encode(s) == IF s = <<>> THEN <<>> ELSE <<OrdTable[Head(s)]>> \o Encode(Tail(s))

\* resp.text: the text of an ASCII body.
RECURSIVE Decode(_)
Decode(bs) == IF bs = <<>> THEN <<>> ELSE <<Chr(Head(bs))>> \o Decode(Tail(bs))

\* s[i:i+len(p)] == p
MatchAt(s, i, p) ==
  /\ i >= 1
  /\ i + Len(p) - 1 <= Len(s)
  /\ \A k \in 1..Len(p) : s[i + k - 1] = p[k]

\* str.startswith
StartsWith(s, p) == MatchAt(s, 1, p)

\* `p in s` for strings
Contains(s, p) == \E i \in 1..(Len(s) + 1) : MatchAt(s, i, p)

\* s.split(sep)[0] for a one-character separator
SplitFirst(s, sep) ==
  IF \E i \in 1..Len(s) : s[i] = sep
  THEN SubSeq(s, 1, (CHOOSE i \in 1..Len(s) :
                       s[i] = sep /\ \A k \in 1..(i - 1) : s[k] # sep) - 1)
  ELSE s

\* The whitespace str.strip() removes (those that occur in the bodies here).
IsSpace(c) == c \in {" ", "\t", "\n"}

RECURSIVE LStrip(_)
LStrip(s) == IF s # <<>> /\ IsSpace(Head(s)) THEN LStrip(Tail(s)) ELSE s

RECURSIVE RStrip(_)
RStrip(s) ==
  IF s # <<>> /\ IsSpace(s[Len(s)]) THEN RStrip(SubSeq(s, 1, Len(s) - 1)) ELSE s

\* str.strip()
Strip(s) == RStrip(LStrip(s))

(***************************************************************************)
(* Python / JSON values                                                    *)
(***************************************************************************)

None == [t |-> "none", v |-> <<>>]
Str(s) == [t |-> "str", v |-> s]
Num(s) == [t |-> "num", v |-> s]
Bool(s) == [t |-> "bool", v |-> s]
Dict(f) == [t |-> "dict", v |-> f]
List(s) == [t |-> "list", v |-> s]

\* isinstance(x, str), isinstance(x, dict)
IsStr(x) == x.t = "str"
IsDict(x) == x.t = "dict"

\* `key in d` and d.get(key) of a dict value
HasKey(d, key) == key \in DOMAIN d.v
Get(d, key) == IF HasKey(d, key) THEN d.v[key] ELSE None

\* d[key] = value, a later key replacing an earlier equal one
Put(f, key, value) ==
  [ k \in DOMAIN f \cup {key} |-> IF k = key THEN value ELSE f[k] ]

(***************************************************************************)
(* base64.b64decode                                                        *)
(***************************************************************************)

B64Alphabet ==
  << "A", "B", "C", "D", "E", "F", "G", "H", "I", "J", "K", "L", "M", "N", "O", "P",
     "Q", "R", "S", "T", "U", "V", "W", "X", "Y", "Z", "a", "b", "c", "d", "e", "f",
     "g", "h", "i", "j", "k", "l", "m", "n", "o", "p", "q", "r", "s", "t", "u", "v",
     "w", "x", "y", "z", "0", "1", "2", "3", "4", "5", "6", "7", "8", "9", "+", "/" >>

\* The six-bit value of each character of the alphabet.
B64Value ==
  [ c \in { B64Alphabet[i] : i \in 1..Len(B64Alphabet) } |->
      (CHOOSE i \in 1..Len(B64Alphabet) : B64Alphabet[i] = c) - 1 ]

\* binascii.a2b_base64 in its lenient mode, from character i on: characters
\* outside the alphabet are dropped, a completed run of padding ends the
\* decoding, and input that ends inside a group of four is an error.
RECURSIVE a2b_base64(_, _, _, _, _, _)
a2b_base64(s, i, quad_pos, leftchar, pads, out) ==
  IF i > Len(s)
  THEN IF quad_pos # 0
       THEN [ok |-> FALSE, bytes |-> <<>>]
       ELSE [ok |-> TRUE, bytes |-> out]
  ELSE IF s[i] = "="
  THEN IF quad_pos >= 2 /\ quad_pos + pads + 1 >= 4
       THEN [ok |-> TRUE, bytes |-> out]
       ELSE a2b_base64(s, i + 1, quad_pos, leftchar,
                       IF quad_pos >= 2 THEN pads + 1 ELSE pads, out)
  ELSE IF s[i] \notin DOMAIN B64Value
  THEN a2b_base64(s, i + 1, quad_pos, leftchar, pads, out)
  ELSE LET this_ch == B64Value[s[i]]
       IN CASE quad_pos = 0 ->
                 a2b_base64(s, i + 1, 1, this_ch, 0, out)
            [] quad_pos = 1 ->
                 a2b_base64(s, i + 1, 2, this_ch % 16, 0,
                            Append(out, (leftchar * 4 + this_ch \div 16) % 256))
            [] quad_pos = 2 ->
                 a2b_base64(s, i + 1, 3, this_ch % 4, 0,
                            Append(out, (leftchar * 16 + this_ch \div 4) % 256))
            [] OTHER ->
                 a2b_base64(s, i + 1, 0, 0, 0,
                            Append(out, (leftchar * 64 + this_ch) % 256))

\* base64.b64decode(s) of a str: [ok, bytes]; not ok stands for the exception.
b64decode(s) == a2b_base64(s, 1, 0, 0, 0, <<>>)

(***************************************************************************)
(* resp.json()                                                             *)
(***************************************************************************)

Fail == [ok |-> FALSE, val |-> None, pos |-> 0]
Parsed(x, p) == [ok |-> TRUE, val |-> x, pos |-> p]

Digits == {"0", "1", "2", "3", "4", "5", "6", "7", "8", "9"}

\* The first position at or after i that holds no JSON whitespace.
RECURSIVE SkipWs(_, _)
SkipWs(s, i) ==
  IF i <= Len(s) /\ s[i] \in {" ", "\t", "\n"} THEN SkipWs(s, i + 1) ELSE i

\* The position of the quote closing a string whose content starts at i, or 0:
\* a raw control character ends the parse (escapes do not occur in the bodies).
RECURSIVE ClosingQuote(_, _)
ClosingQuote(s, i) ==
  IF i > Len(s) \/ s[i] \in {"\t", "\n", "\\"} THEN 0
  ELSE IF s[i] = "\"" THEN i
  ELSE ClosingQuote(s, i + 1)

ParseString(s, i) ==
  LET e == ClosingQuote(s, i + 1)
  IN IF e = 0 THEN Fail ELSE Parsed(Str(SubSeq(s, i + 1, e - 1)), e + 1)

\* The position after the digits that start at i.
RECURSIVE DigitsEnd(_, _)
DigitsEnd(s, i) ==
  IF i <= Len(s) /\ s[i] \in Digits THEN DigitsEnd(s, i + 1) ELSE i

\* An unsigned integer: 0, or digits that do not start with 0.
ParseNumber(s, i) ==
  LET e == IF s[i] = "0" THEN i + 1 ELSE DigitsEnd(s, i)
  IN Parsed(Num(SubSeq(s, i, e - 1)), e)

RECURSIVE ParseValue(_, _)
RECURSIVE ParseMembers(_, _, _)
RECURSIVE ParseElements(_, _, _)

\* One JSON value starting at i (whitespace already skipped).
ParseValue(s, i) ==
  IF i > Len(s) THEN Fail
  ELSE IF s[i] = "\"" THEN ParseString(s, i)
  ELSE IF s[i] \in Digits THEN ParseNumber(s, i)
  ELSE IF MatchAt(s, i, <<"n", "u", "l", "l">>) THEN Parsed(None, i + 4)
  ELSE IF MatchAt(s, i, <<"t", "r", "u", "e">>) THEN Parsed(Bool(<<"true">>), i + 4)
  ELSE IF MatchAt(s, i, <<"f", "a", "l", "s", "e">>) THEN Parsed(Bool(<<"false">>), i + 5)
  ELSE IF s[i] = "{"
  THEN LET k == SkipWs(s, i + 1)
       IN IF k <= Len(s) /\ s[k] = "}"
          THEN Parsed(Dict(<<>>), k + 1)
          ELSE ParseMembers(s, k, <<>>)
  ELSE IF s[i] = "["
  THEN LET k == SkipWs(s, i + 1)
       IN IF k <= Len(s) /\ s[k] = "]"
          THEN Parsed(List(<<>>), k + 1)
          ELSE ParseElements(s, k, <<>>)
  ELSE Fail

\* The members of an object from i on, acc the members read so far.
ParseMembers(s, i, acc) ==
  IF i > Len(s) \/ s[i] # "\"" THEN Fail
  ELSE LET key == ParseString(s, i)
           colon == SkipWs(s, key.pos)
           value == ParseValue(s, SkipWs(s, colon + 1))
           next == SkipWs(s, value.pos)
       IN IF ~key.ok \/ colon > Len(s) \/ s[colon] # ":" THEN Fail
          ELSE IF ~value.ok \/ next > Len(s) THEN Fail
          ELSE IF s[next] = ","
          THEN ParseMembers(s, SkipWs(s, next + 1), Put(acc, key.val.v, value.val))
          ELSE IF s[next] = "}"
          THEN Parsed(Dict(Put(acc, key.val.v, value.val)), next + 1)
          ELSE Fail

\* The elements of an array from i on, acc the elements read so far.
ParseElements(s, i, acc) ==
  LET value == ParseValue(s, i)
      next == SkipWs(s, value.pos)
  IN IF ~value.ok \/ next > Len(s) THEN Fail
     ELSE IF s[next] = ","
     THEN ParseElements(s, SkipWs(s, next + 1), Append(acc, value.val))
     ELSE IF s[next] = "]"
     THEN Parsed(List(Append(acc, value.val)), next + 1)
     ELSE Fail

\* json.loads(text): the value, or [ok |-> FALSE] for the exception.
loads(text) ==
  LET r == ParseValue(text, SkipWs(text, 1))
  IN IF r.ok /\ SkipWs(text, r.pos) = Len(text) + 1 THEN r ELSE Fail

(***************************************************************************)
(* Literals of src/main.py                                                 *)
(***************************************************************************)

\* "audio", "audio_base64", "result", "data"
k_audio == <<"a", "u", "d", "i", "o">>
k_audio_base64 == <<"a", "u", "d", "i", "o", "_", "b", "a", "s", "e", "6", "4">>
k_result == <<"r", "e", "s", "u", "l", "t">>
k_data == <<"d", "a", "t", "a">>

\* "url", "audio_url", "result_url", "file"
k_url == <<"u", "r", "l">>
k_audio_url == <<"a", "u", "d", "i", "o", "_", "u", "r", "l">>
k_result_url == <<"r", "e", "s", "u", "l", "t", "_", "u", "r", "l">>
k_file == <<"f", "i", "l", "e">>

\* "text", "voice", "format" and the defaults "urdu", "mp3"
k_text == <<"t", "e", "x", "t">>
k_voice == <<"v", "o", "i", "c", "e">>
k_format == <<"f", "o", "r", "m", "a", "t">>
s_urdu == <<"u", "r", "d", "u">>
s_mp3 == <<"m", "p", "3">>
s_mpeg == <<"m", "p", "e", "g">>

\* "http", "audio", "octet-stream", "application/json"
s_http == <<"h", "t", "t", "p">>
s_audio == <<"a", "u", "d", "i", "o">>
s_octet_stream == <<"o", "c", "t", "e", "t", "-", "s", "t", "r", "e", "a", "m">>
s_application_json == <<"a", "p", "p", "l", "i", "c", "a", "t", "i", "o", "n", "/", "j", "s", "o", "n">>

\* The mime types the normalizer assigns.
mime_audio_mpeg == <<"a", "u", "d", "i", "o", "/", "m", "p", "e", "g">>
mime_audio_wav == <<"a", "u", "d", "i", "o", "/", "w", "a", "v">>
fallback_mime == <<"a", "p", "p", "l", "i", "c", "a", "t", "i", "o", "n", "/", "o", "c", "t", "e", "t", "-", "s", "t", "r", "e", "a", "m">>

\* The default of ORATOR_TTS_ENDPOINT.
ORATOR_TTS_ENDPOINT ==
  <<"h", "t", "t", "p", "s", ":", "/", "/", "a", "p", "i", ".", "o", "r", "a", "t", "o", "r", ".", "e", "x", "a", "m", "p", "l", "e", "/", "v", "1", "/", "t", "t", "s">>

\* The keys scanned for base64 audio, for an audio URL, and under "data".
Base64Keys == <<k_audio, k_audio_base64, k_result, k_data>>
UrlKeys == <<k_url, k_audio_url, k_result_url, k_file>>
NestedKeys == <<k_audio, k_audio_base64>>

(***************************************************************************)
(* call_orator_tts_bytes: the pure parts                                   *)
(***************************************************************************)

\* `not x` of a Python value
Falsy(x) ==
  CASE x.t = "none" -> TRUE
    [] x.t = "str" -> x.v = <<>>
    [] x.t = "num" -> x.v = <<"0">>
    [] x.t = "bool" -> x.v = <<"false">>
    [] OTHER -> DOMAIN x.v = {}

\* d.get(key, default)
GetDefault(d, key, default) == IF HasKey(d, key) THEN d.v[key] ELSE default

\* The direct-audio test without its look at the status code.
IsDirectAudio_AnyStatus(r) ==
  /\ r.content_type # <<>>
  /\ (Contains(r.content_type, s_audio) \/ Contains(r.content_type, s_octet_stream))

\* The direct-audio test: status 200 and a content type naming audio or
\* octet-stream.
IsDirectAudio(r) ==
  /\ r.status_code = 200
  /\ r.content_type # <<>>
  /\ (Contains(r.content_type, s_audio) \/ Contains(r.content_type, s_octet_stream))

\* The content type handed on with its parameters.
DirectMime_Unsplit(r) == r.content_type

\* The mime type of a direct-audio response: the content type up to its first ";".
DirectMime(r) == SplitFirst(r.content_type, ";")

\* The test for a JSON response: a JSON content type, or a body whose text
\* starts, whitespace apart, with "{" or "[".
LooksJson(r) ==
  LET resp_text == Decode(r.content)
  IN \/ Contains(r.content_type, s_application_json)
     \/ /\ resp_text # <<>>
        /\ \/ StartsWith(Strip(resp_text), <<"{">>)
           \/ StartsWith(Strip(resp_text), <<"[">>)

\* try: j = resp.json()  except Exception: j = None
ParseBody(r) ==
  LET p == loads(Decode(r.content)) IN IF p.ok THEN p.val ELSE None

\* "audio/mpeg" if fmt in ("mp3", "mpeg") else "audio/wav"
GuessMime(f) ==
  IF IsStr(f) /\ f.v \in {s_mp3, s_mpeg} THEN mime_audio_mpeg ELSE mime_audio_wav

NoMatch == [found |-> FALSE, key |-> <<>>, bytes |-> <<>>, url |-> <<>>]

\* The scan with a rejected value ending it: no `except: pass`.
RECURSIVE ScanBase64_StopAtFailure(_, _)
ScanBase64_StopAtFailure(d, keys) ==
  LET key == Head(keys)
      b == b64decode(d.v[key].v)
  IN IF keys = <<>> THEN NoMatch
     ELSE IF HasKey(d, key) /\ IsStr(d.v[key])
     THEN IF b.ok
          THEN [found |-> TRUE, key |-> key, bytes |-> b.bytes, url |-> <<>>]
          ELSE NoMatch
     ELSE ScanBase64_StopAtFailure(d, Tail(keys))

\* for key in keys: the first key of d whose value is a str that b64decode
\* accepts; a value it rejects is passed over.
RECURSIVE ScanBase64(_, _)
ScanBase64(d, keys) ==
  LET key == Head(keys)
      b == b64decode(d.v[key].v)
  IN IF keys = <<>> THEN NoMatch
     ELSE IF HasKey(d, key) /\ IsStr(d.v[key]) /\ b.ok
     THEN [found |-> TRUE, key |-> key, bytes |-> b.bytes, url |-> <<>>]
     ELSE ScanBase64(d, Tail(keys))

\* for key in keys: the first key of d whose value is a str starting with "http".
RECURSIVE ScanUrl(_, _)
ScanUrl(d, keys) ==
  LET key == Head(keys)
  IN IF keys = <<>> THEN NoMatch
     ELSE IF HasKey(d, key) /\ IsStr(d.v[key]) /\ StartsWith(d.v[key].v, s_http)
     THEN [found |-> TRUE, key |-> key, bytes |-> <<>>, url |-> d.v[key].v]
     ELSE ScanUrl(d, Tail(keys))

\* data = j.get("data"); the base64 scan of it when it is a dict.
ScanNested(obj) ==
  LET data == Get(obj, k_data)
  IN IF IsDict(data) THEN ScanBase64(data, NestedKeys) ELSE NoMatch

\* What the normalizer does next: return (bytes, mime), await the GET of an
\* audio URL, or raise.
Return(bytes, mime, how) ==
  [kind |-> "return", content |-> bytes, media_type |-> mime, via |-> how]
Fetch(u) == [kind |-> "fetch", url |-> u]
Raise(code, d) == [kind |-> "raise", status_code |-> code, detail |-> d]

\* The final error with a message in place of the provider's status and text.
ProviderDetail_MessageOnly(r) ==
  [message |-> "No audio in provider response", status_code |-> 0, text |-> <<>>]

\* An exception's detail: a message, or the provider's status and body text.
Message(m) == [message |-> m, status_code |-> 0, text |-> <<>>]
ProviderDetail(r) ==
  [message |-> "", status_code |-> r.status_code, text |-> Decode(r.content)]

\* The raw body handed back only for status 200.
RawFallback_Only200(r) ==
  IF r.content # <<>> /\ r.status_code = 200
  THEN [kind |-> "return", content |-> r.content, media_type |-> fallback_mime,
        via |-> "raw"]
  ELSE [kind |-> "raise", status_code |-> 502,
        detail |-> [message |-> "", status_code |-> r.status_code,
                    text |-> Decode(r.content)]]

\* The end of the normalizer: the raw body when there is one, else the error.
RawFallback(r) ==
  IF r.content # <<>>
  THEN Return(r.content, fallback_mime, "raw")
  ELSE Raise(502, ProviderDetail(r))

\* The scans with the nested base64 fields looked at before the URL fields.
ScanObject_NestedFirst(obj, f, r) ==
  LET b == ScanBase64(obj, Base64Keys)
      u == ScanUrl(obj, UrlKeys)
      n == ScanNested(obj)
  IN IF b.found THEN Return(b.bytes, GuessMime(f), "base64")
     ELSE IF n.found THEN Return(n.bytes, GuessMime(f), "nested")
     ELSE IF u.found THEN Fetch(u.url)
     ELSE RawFallback(r)

\* The scans of a JSON object obj: 1) base64 field, 2) url, 3) nested base64.
ScanObject(obj, f, r) ==
  LET b == ScanBase64(obj, Base64Keys)
      u == ScanUrl(obj, UrlKeys)
      n == ScanNested(obj)
  IN IF b.found THEN Return(b.bytes, GuessMime(f), "base64")
     ELSE IF u.found THEN Fetch(u.url)
     ELSE IF n.found THEN Return(n.bytes, GuessMime(f), "nested")
     ELSE RawFallback(r)

\* The local j once the JSON test has been passed: resp.json(), or None when
\* it raises.  Where the code leaves j unbound (direct audio, no JSON in sight)
\* it is None here.
JsonOf(r) == IF ~IsDirectAudio(r) /\ LooksJson(r) THEN ParseBody(r) ELSE None

\* The normalizer from the provider's response r, with jv its local j, to its
\* return, its raise, or its await of an audio URL.
AfterPost(r, f, jv) ==
  IF IsDirectAudio(r)
  THEN Return(r.content, DirectMime(r), "direct")
  ELSE IF IsDict(jv)
  THEN ScanObject(jv, f, r)
  ELSE RawFallback(r)

\* fetch_binary_url without raise_for_status().
AfterGet_NoRaiseForStatus(g) ==
  IF ~g.error
  THEN Return(g.content, mime_audio_mpeg, "url")
  ELSE Raise(502, Message("Failed to fetch audio URL"))

\* fetch_binary_url once the GET has been answered or has failed.
\* g.error stands for a network error, else raise_for_status() decides.
AfterGet(g) ==
  IF ~g.error /\ g.status_code \in 200..299
  THEN Return(g.content, mime_audio_mpeg, "url")
  ELSE Raise(502, Message("Failed to fetch audio URL"))

(***************************************************************************)
(* The environment: clients, the provider, the host of an audio URL        *)
(***************************************************************************)

\* The most fields an object the provider sends has.
MaxFields == 2

\* The JSON text of a value; an object is given as [t |-> "obj"] with the
\* sequence of its <<key, value>> members.
Obj(members) == [t |-> "obj", v |-> members]

RECURSIVE Dumps(_)
RECURSIVE DumpsMembers(_)
Dumps(x) ==
  CASE x.t = "str" -> <<"\"">> \o x.v \o <<"\"">>
    [] x.t = "num" -> x.v
    [] x.t = "obj" -> <<"{">> \o DumpsMembers(x.v) \o <<"}">>
    [] OTHER -> <<"n", "u", "l", "l">>
DumpsMembers(ms) ==
  IF ms = <<>> THEN <<>>
  ELSE <<"\"">> \o Head(ms)[1] \o <<"\"", ":">> \o Dumps(Head(ms)[2])
         \o (IF Len(ms) > 1 THEN <<",">> \o DumpsMembers(Tail(ms)) ELSE <<>>)

\* Field values: base64 of "A" and of "AB", text base64 rejects, a number,
\* two http URLs and a text that is no URL.
v_b64_A == Str(<<"Q", "Q", "=", "=">>)
v_b64_AB == Str(<<"Q", "U", "I", "=">>)
v_b64_bad == Str(<<"Q", "Q", "=">>)
v_number == Num(<<"7">>)
v_url_a == Str(<<"h", "t", "t", "p", ":", "/", "/", "a">>)
v_url_b == Str(<<"h", "t", "t", "p", ":", "/", "/", "b">>)
v_not_url == Str(<<"f", "t", "p", ":", "/", "/", "a">>)

\* The objects found under "data": none, one or both of the nested keys, with
\* base64 of "ABC", base64 of "AB" and rejected text.
v_b64_ABC == Str(<<"Q", "U", "J", "D">>)
NestedObjects ==
  { Obj(<<>>),
    Obj(<<<<k_audio, v_b64_ABC>>>>),
    Obj(<<<<k_audio_base64, v_b64_bad>>>>),
    Obj(<<<<k_audio, v_b64_bad>>, <<k_audio_base64, v_b64_ABC>>>>),
    Obj(<<<<k_audio, v_b64_ABC>>, <<k_audio_base64, v_b64_AB>>>>) }

\* The top-level fields a provider object is made of, in the order written.
FieldOrder ==
  <<k_audio, k_audio_base64, k_result, k_data, k_url, k_audio_url, k_result_url, k_file>>

\* The values field number i takes: the base64 fields two texts that decode and
\* one that does not, "data" also an object, the URL fields two URLs and a text
\* that is none; "audio" and "url" also a number.
FieldValues(i) ==
  IF i <= 3 THEN {v_b64_A, v_b64_AB, v_b64_bad} \cup (IF i = 1 THEN {v_number} ELSE {})
  ELSE IF i = 4 THEN {v_b64_AB, v_b64_bad} \cup NestedObjects
  ELSE {v_url_a, v_url_b, v_not_url} \cup (IF i = 5 THEN {v_number} ELSE {})

\* The member lists of at most n fields taken from field number i on.
RECURSIVE MemberLists(_, _)
MemberLists(i, n) ==
  IF i > Len(FieldOrder) \/ n = 0 THEN {<<>>}
  ELSE MemberLists(i + 1, n)
         \cup { <<<<FieldOrder[i], x>>>> \o rest :
                  x \in FieldValues(i), rest \in MemberLists(i + 1, n - 1) }

\* The bodies a provider sends: nothing, text that is no JSON, JSON that is no
\* object, JSON cut short, an object after whitespace, and the objects.
text_plain == <<"o", "o", "p", "s">>
text_array == <<"[", "7", "]">>
text_cut_short == <<"{", "\"", "a", "u", "d", "i", "o", "\"", ":", "\"", "Q", "Q", "=", "=", "\"">>
text_indented == <<" ", "{", "\"", "a", "u", "d", "i", "o", "\"", ":", "\"", "Q", "Q", "=", "=", "\"", "}">>
OtherBodies == {<<>>, <<" ">>, text_plain, text_array, text_cut_short, text_indented}

ProviderBodies ==
  { Encode(t) : t \in OtherBodies }
    \cup { Encode(Dumps(Obj(ms))) : ms \in MemberLists(1, MaxFields) }

\* The content types a provider declares; <<>> is no Content-Type header.
ProviderContentTypes ==
  { <<>>,
    <<"a", "u", "d", "i", "o", "/", "m", "p", "e", "g">>,
    <<"a", "u", "d", "i", "o", "/", "w", "a", "v", ";", " ", "r", "a", "t", "e", "=", "8", "0", "0", "0">>,
    <<"a", "p", "p", "l", "i", "c", "a", "t", "i", "o", "n", "/", "o", "c", "t", "e", "t", "-", "s", "t", "r", "e", "a", "m">>,
    <<"a", "p", "p", "l", "i", "c", "a", "t", "i", "o", "n", "/", "j", "s", "o", "n">> }

ProviderStatuses == {200, 500}

ProviderResponses ==
  [status_code : ProviderStatuses, content_type : ProviderContentTypes,
   content : ProviderBodies]

\* The answers to the GET of an audio URL: a status and a body, or no answer.
UrlAnswers ==
  { [error |-> FALSE, status_code |-> 200, content |-> Encode(<<"m", "p", "3">>)],
    [error |-> FALSE, status_code |-> 200, content |-> <<>>],
    [error |-> FALSE, status_code |-> 404, content |-> Encode(<<"n", "o">>)],
    [error |-> TRUE, status_code |-> 0, content |-> <<>>] }

\* The request bodies a client posts: text absent, empty or given; format
\* absent or given; voice given in a payload that spells out all three.
s_salam == <<"s", "a", "l", "a", "m">>
s_wav == <<"w", "a", "v">>
PayloadFields ==
  { f \in [ {k_text, k_voice, k_format} ->
              {None, Str(<<>>), Str(s_salam), Str(s_mpeg), Str(s_wav)} ] :
      /\ f[k_text] \in {None, Str(<<>>), Str(s_salam)}
      /\ f[k_format] \in {None, Str(s_mpeg), Str(s_wav)}
      /\ \/ f[k_voice] = None
         \/ f[k_voice] = Str(s_salam) /\ f[k_text] # None /\ f[k_format] = Str(s_wav) }

\* A payload: the dict of the fields that are given (None above: absent).
Payloads ==
  { Dict([ k \in { x \in DOMAIN f : f[x] # None } |-> f[k] ]) : f \in PayloadFields }

\* The values of the environment variable read into ORATOR_API_KEY.
Credentials == {None, Str(<<>>), Str(<<"s", "k">>)}


(***************************************************************************)
(* State                                                                   *)
(***************************************************************************)

VARIABLES
  ORATOR_API_KEY,  \* the credential, read once at start
  pc,              \* where the request is: idle, post, get, done
  text, voice, fmt,\* api_synthesize's locals
  resp,            \* the provider's response to the POST
  j,               \* the normalizer's local j: the response body as JSON
  url_resp,        \* the answer to the GET of an audio URL
  calls,           \* the outbound calls made, in order
  response,        \* the HTTP response to the client
  via              \* the return or raise that ended the normalizer

vars == <<ORATOR_API_KEY, pc, text, voice, fmt, resp, j, url_resp, calls, response, via>>

NoResp == [status_code |-> 0, content_type |-> <<>>, content |-> <<>>]
NoAnswer == [error |-> FALSE, status_code |-> 0, content |-> <<>>]
NoDetail == Message("")
NoResponse ==
  [status_code |-> 0, content |-> <<>>, media_type |-> <<>>, detail |-> NoDetail]

\* JSONResponse(status_code=code, content={"detail": d}), also what FastAPI
\* makes of HTTPException(status_code=code, detail=d).
ErrorResponse(code, d) ==
  [status_code |-> code, content |-> <<>>, media_type |-> s_application_json,
   detail |-> d]

\* StreamingResponse(io.BytesIO(audio_bytes), media_type=mime)
StreamingResponse(bytes, mime) ==
  [status_code |-> 200, content |-> bytes, media_type |-> mime, detail |-> NoDetail]

Init ==
  /\ ORATOR_API_KEY \in Credentials
  /\ pc = "idle"
  /\ text = None
  /\ voice = None
  /\ fmt = None
  /\ resp = NoResp
  /\ j = None
  /\ url_resp = NoAnswer
  /\ calls = <<>>
  /\ response = NoResponse
  /\ via = "none"

(***************************************************************************)
(* Actions                                                                 *)
(***************************************************************************)

\* `if text is None`: the empty text let through.
TextMissing_NoneOnly(t) == t.t = "none"

\* if not text
TextMissing(t) == Falsy(t)

\* `if ORATOR_API_KEY is None`: the empty credential let through.
NotConfigured_NoneOnly(key) == key.t = "none"

\* if not ORATOR_API_KEY
NotConfigured(key) == Falsy(key)

\* client.post(ORATOR_TTS_ENDPOINT, json=payload, ...)
PostCall(t, v, f) ==
  [method |-> "POST", url |-> ORATOR_TTS_ENDPOINT, text |-> t, voice |-> v,
   format |-> f]

\* client.get(url, timeout=60.0)
GetCall(u) ==
  [method |-> "GET", url |-> u, text |-> None, voice |-> None, format |-> None]

\* The normalizer's step n ends the request or awaits the GET.
Finish(n) ==
  /\ via' = (IF n.kind = "return" THEN n.via ELSE IF n.kind = "raise" THEN "raise" ELSE via)
  /\ IF n.kind = "return"
     THEN /\ response' = StreamingResponse(n.content, n.media_type)
          /\ pc' = "done"
          /\ calls' = calls
     ELSE IF n.kind = "raise"
     THEN /\ response' = ErrorResponse(n.status_code, n.detail)
          /\ pc' = "done"
          /\ calls' = calls
     ELSE /\ response' = response
          /\ pc' = "get"
          /\ calls' = Append(calls, GetCall(n.url))

\* POST /api/synthesize with a payload, up to its answer or to the await of
\* the provider.
api_synthesize ==
  /\ pc = "idle"
  /\ \E payload \in Payloads :
       /\ text' = Get(payload, k_text)
       /\ voice' = GetDefault(payload, k_voice, Str(s_urdu))
       /\ fmt' = GetDefault(payload, k_format, Str(s_mp3))
       /\ IF TextMissing(Get(payload, k_text))
          THEN /\ response' = ErrorResponse(400, Message("text is required"))
               /\ pc' = "done"
               /\ via' = "front"
               /\ calls' = calls
          ELSE IF NotConfigured(ORATOR_API_KEY)
          THEN /\ response' =
                    ErrorResponse(500, Message("Server is not configured with ORATOR_API_KEY"))
               /\ pc' = "done"
               /\ via' = "raise"
               /\ calls' = calls
          ELSE /\ calls' = Append(calls, PostCall(Get(payload, k_text),
                                     GetDefault(payload, k_voice, Str(s_urdu)),
                                     GetDefault(payload, k_format, Str(s_mp3))))
               /\ pc' = "post"
               /\ UNCHANGED <<response, via>>
  /\ UNCHANGED <<ORATOR_API_KEY, resp, j, url_resp>>

\* The POST sent once more after a network error, then given up.
post_request_error_Retry ==
  /\ pc = "post"
  /\ IF Len(calls) < 2
     THEN /\ calls' = Append(calls, calls[1])
          /\ UNCHANGED <<pc, response, via>>
     ELSE /\ response' = ErrorResponse(502, Message("Request to Orator failed"))
          /\ pc' = "done"
          /\ via' = "raise"
          /\ calls' = calls
  /\ UNCHANGED <<ORATOR_API_KEY, text, voice, fmt, resp, j, url_resp>>

\* except httpx.RequestError: the POST gets no answer.
post_request_error ==
  /\ pc = "post"
  /\ response' = ErrorResponse(502, Message("Request to Orator failed"))
  /\ pc' = "done"
  /\ via' = "raise"
  /\ UNCHANGED <<ORATOR_API_KEY, text, voice, fmt, resp, j, url_resp, calls>>

\* The provider answers: the normalizer runs on to its end or to the GET.
post_response ==
  /\ pc = "post"
  /\ \E r \in ProviderResponses :
       LET jv == JsonOf(r)
       IN /\ resp' = r
          /\ j' = jv
          /\ Finish(AfterPost(r, fmt, jv))
  /\ UNCHANGED <<ORATOR_API_KEY, text, voice, fmt, url_resp>>

\* The GET of the audio URL is answered, or fails: fetch_binary_url ends.
get_answer ==
  /\ pc = "get"
  /\ \E g \in UrlAnswers :
       /\ url_resp' = g
       /\ Finish(AfterGet(g))
  /\ UNCHANGED <<ORATOR_API_KEY, text, voice, fmt, resp, j>>

Next ==
  \/ api_synthesize
  \/ post_request_error
  \/ post_response
  \/ get_answer

Spec == Init /\ [][Next]_vars

(***************************************************************************)
(* Properties                                                              *)
(***************************************************************************)

Min(S) == CHOOSE x \in S : \A y \in S : x <= y

\* The provider has answered the POST.
Received == resp.status_code # 0

\* The request has ended with audio streamed back, or with an HTTP error.
Succeeded == pc = "done" /\ response.status_code = 200
Failed == pc = "done" /\ response.status_code >= 400

\* The outbound calls made with method m.
CallsBy(m) == { i \in 1..Len(calls) : calls[i].method = m }

\* The response declares direct audio: status 200 and a content type that
\* contains "audio" or "octet-stream".
DeclaresAudio ==
  Contains(resp.content_type, s_audio) \/ Contains(resp.content_type, s_octet_stream)
DirectApplies == resp.status_code = 200 /\ DeclaresAudio

\* The response is a JSON object to which the direct-audio branch did not apply.
ObjectApplies == Received /\ ~DirectApplies /\ IsDict(j)

\* Field number i of keys holds, in d, a string that base64 decoding accepts.
Decodes(d, keys, i) ==
  /\ keys[i] \in DOMAIN d.v
  /\ d.v[keys[i]].t = "str"
  /\ b64decode(d.v[keys[i]].v).ok
DecodableFields(d, keys) == { i \in 1..Len(keys) : Decodes(d, keys, i) }

\* Field number i of UrlKeys holds, in d, a string that starts with "http".
UrlFields(d) ==
  { i \in 1..Len(UrlKeys) :
      /\ UrlKeys[i] \in DOMAIN d.v
      /\ d.v[UrlKeys[i]].t = "str"
      /\ StartsWith(d.v[UrlKeys[i]].v, s_http) }

\* The strategies of an object response that match.
Base64Applies == ObjectApplies /\ DecodableFields(j, Base64Keys) # {}
UrlApplies == ObjectApplies /\ UrlFields(j) # {}
NestedApplies ==
  /\ ObjectApplies
  /\ k_data \in DOMAIN j.v
  /\ j.v[k_data].t = "dict"
  /\ DecodableFields(j.v[k_data], NestedKeys) # {}
NothingApplies ==
  Received /\ ~DirectApplies /\ ~Base64Applies /\ ~UrlApplies /\ ~NestedApplies

\* mime is "audio/mpeg" for the formats mp3 and mpeg, "audio/wav" for the rest.
MimeOfFormat ==
  IF fmt = Str(s_mp3) \/ fmt = Str(s_mpeg) THEN mime_audio_mpeg ELSE mime_audio_wav

\* C1: a request whose text is missing or empty is answered 400 and makes no
\* outbound call, whatever the voice, the format and the credential.
C1_EmptyTextIs400 ==
  (pc # "idle" /\ (text.t = "none" \/ (text.t = "str" /\ text.v = <<>>)))
    => (pc = "done" /\ response.status_code = 400 /\ calls = <<>>)

C1_Witness ==
  /\ pc = "done"
  /\ text = Str(<<>>)
  /\ ORATOR_API_KEY = Str(<<"s", "k">>)
  /\ voice = Str(s_salam)
  /\ response.status_code = 400

\* C2: without a credential no outbound call is ever recorded, and every call
\* of the normalizer (a request with text) ends in HTTP 500.
C2_NoCredentialNoCall ==
  (ORATOR_API_KEY.t = "none" \/ ORATOR_API_KEY.v = <<>>)
    => /\ calls = <<>>
       /\ (pc # "idle" /\ text.t = "str" /\ text.v # <<>>)
            => (pc = "done" /\ response.status_code = 500)

C2_Witness ==
  /\ ORATOR_API_KEY = Str(<<>>)
  /\ text = Str(s_salam)
  /\ pc = "done"
  /\ response.status_code = 500
  /\ calls = <<>>

\* C3: a response with status 200 and a content type containing "audio" or
\* "octet-stream" is returned as it is: the raw body, the content type up to its
\* first ";" as mime type, no secondary fetch, no look at the body.
C3_DirectAudio ==
  (Received /\ DirectApplies)
    => /\ Succeeded
       /\ response.content = resp.content
       /\ StartsWith(resp.content_type, response.media_type)
       /\ \A i \in 1..Len(response.media_type) : response.media_type[i] # ";"
       /\ \/ Len(response.media_type) = Len(resp.content_type)
          \/ resp.content_type[Len(response.media_type) + 1] = ";"
       /\ CallsBy("GET") = {}
       /\ via = "direct"
       /\ j = None

C3_Witness ==
  /\ Received /\ DirectApplies
  /\ text = Str(s_salam)
  /\ Contains(resp.content_type, <<";">>)
  /\ resp.content = Encode(Dumps(Obj(<<<<k_audio, v_b64_A>>>>)))
  /\ response.content = resp.content
  /\ response.media_type = mime_audio_wav

\* C4: of a JSON object the fields audio, audio_base64, result, data are scanned
\* in that order, strings only; the first one base64 decoding accepts is
\* returned decoded, one it rejects is passed over.  The mime type is audio/mpeg
\* for the formats mp3 and mpeg, audio/wav for any other.
C4_FirstDecodableField ==
  Base64Applies
    => /\ Succeeded
       /\ response.content =
            b64decode(j.v[Base64Keys[Min(DecodableFields(j, Base64Keys))]].v).bytes
       /\ response.media_type = MimeOfFormat
       /\ CallsBy("GET") = {}

\* audio holds text base64 rejects and audio_base64 is the field returned.
C4_Witness ==
  /\ Base64Applies
  /\ k_audio \in DOMAIN j.v
  /\ j.v[k_audio] = v_b64_bad
  /\ Min(DecodableFields(j, Base64Keys)) = 2
  /\ response.content = <<65, 66>>
  /\ response.media_type = mime_audio_wav

\* The first http URL among url, audio_url, result_url, file of the object j.
FirstUrl == j.v[UrlKeys[Min(UrlFields(j))]].v

\* The GET of the audio URL was answered with a 2xx status.
GetSucceeded == ~url_resp.error /\ url_resp.status_code \in 200..299

\* C5: with no top-level base64 field decoded and an http URL under url,
\* audio_url, result_url or file, exactly one GET goes out, to the first such
\* URL.  A 2xx answer is returned with mime audio/mpeg; any other answer, or
\* none, ends the request with HTTP 502 and nothing else is tried.
C5_UrlFetch ==
  (UrlApplies /\ ~Base64Applies)
    => /\ Len(calls) = 2
       /\ calls[1].method = "POST"
       /\ calls[2] = GetCall(FirstUrl)
       /\ pc \in {"get", "done"}
       /\ pc = "get" => response = NoResponse
       /\ pc = "done" =>
            IF GetSucceeded
            THEN response = StreamingResponse(url_resp.content, mime_audio_mpeg)
            ELSE /\ response.status_code = 502
                 /\ response.content = <<>>
                 /\ via = "raise"

\* result_url and file both hold a URL, the GET of result_url's is answered
\* 404, and the request ends 502.
C5_Witness ==
  /\ UrlApplies /\ ~Base64Applies
  /\ UrlFields(j) = {3, 4}
  /\ calls[2].url = v_url_b.v
  /\ j.v[k_file] = v_url_a
  /\ url_resp.status_code = 404
  /\ pc = "done"
  /\ response.status_code = 502

\* The strategy the normalizer took, and the one that wins when the order is
\* direct audio, top-level base64, URL, nested base64, raw body, error.
Taken == IF CallsBy("GET") # {} THEN "url" ELSE via
Winner ==
  IF DirectApplies THEN "direct"
  ELSE IF Base64Applies THEN "base64"
  ELSE IF UrlApplies THEN "url"
  ELSE IF NestedApplies THEN "nested"
  ELSE IF resp.content # <<>> THEN "raw"
  ELSE "raise"

\* The bytes of the first decodable field under "data".
NestedBytes ==
  b64decode(j.v[k_data].v[NestedKeys[Min(DecodableFields(j.v[k_data], NestedKeys))]].v).bytes

\* C6 as stated: nested base64 is tried before the URL, so an object with no
\* decodable top-level field, a decodable field under "data" and an http URL
\* field yields the nested bytes and no secondary fetch.
C6_NestedBeforeUrl ==
  (NestedApplies /\ UrlApplies /\ ~Base64Applies)
    => /\ CallsBy("GET") = {}
       /\ Succeeded
       /\ response.content = NestedBytes

\* C6, amended: the order is direct audio, top-level base64, URL with its
\* secondary fetch, nested base64, raw body, error, and the first that matches
\* wins.  An object with no decodable top-level field, a decodable field under
\* "data" and an http URL field has its URL fetched; the nested field is never
\* returned.
C6_UrlBeforeNested ==
  Received
    => /\ Taken = Winner
       /\ (NestedApplies /\ UrlApplies /\ ~Base64Applies)
            => /\ calls[Len(calls)] = GetCall(FirstUrl)
               /\ via # "nested"

C6_Witness ==
  /\ NestedApplies /\ UrlApplies /\ ~Base64Applies
  /\ pc = "done"
  /\ GetSucceeded
  /\ NestedBytes = <<65, 66, 67>>
  /\ response.content = url_resp.content
  /\ response.content # NestedBytes

\* C7: a non-empty body for which no strategy matched is returned as it is,
\* with mime application/octet-stream and no error; so is a JSON-looking body
\* that fails to parse, sent with status 200 and no audio content type.
C7_RawFallback ==
  (NothingApplies /\ resp.content # <<>>)
    => /\ Succeeded
       /\ response = StreamingResponse(resp.content, fallback_mime)
       /\ CallsBy("GET") = {}

C7_Witness ==
  /\ resp.status_code = 200
  /\ resp.content_type = s_application_json
  /\ resp.content = Encode(text_cut_short)
  /\ j = None
  /\ Succeeded
  /\ response.content = resp.content
  /\ response.media_type = fallback_mime

\* C8: an empty body for which no strategy matched ends the request with HTTP
\* 502 whose detail carries the provider's status code and body text; no other
\* request that got a provider response and made no secondary fetch ends in an
\* error.
C8_EmptyBodyIs502 ==
  /\ (NothingApplies /\ resp.content = <<>>)
       => /\ Failed
          /\ response.status_code = 502
          /\ response.detail.status_code = resp.status_code
          /\ response.detail.text = <<>>
  /\ (Received /\ Failed /\ CallsBy("GET") = {})
       => /\ NothingApplies
          /\ resp.content = <<>>
          /\ response.status_code = 502

C8_Witness ==
  /\ Received
  /\ resp.status_code = 500
  /\ resp.content_type = s_application_json
  /\ resp.content = <<>>
  /\ Failed
  /\ response.status_code = 502
  /\ response.detail.status_code = 500

\* The steps a request is from its end, at most.
StepsLeft(p) ==
  CASE p = "idle" -> 3 [] p = "post" -> 2 [] p = "get" -> 1 [] OTHER -> 0

\* C9: a request makes at most one POST and at most one GET, none of them
\* twice; a POST or a GET that fails ends it with HTTP 502 and no further call.
\* The request has exactly one outcome: while it has none a step is possible,
\* every step brings it nearer its end, and no step follows its answer.
C9_OneCycle ==
  /\ [](/\ Cardinality(CallsBy("POST")) <= 1
        /\ Cardinality(CallsBy("GET")) <= 1
        /\ (pc = "done") <=> (response.status_code # 0)
        /\ (pc = "done" /\ Len(calls) = 1 /\ ~Received)
             => response.status_code = 502
        /\ (pc = "done" /\ ~GetSucceeded /\ CallsBy("GET") # {})
             => (response.status_code = 502 /\ Len(calls) = 2)
        /\ (pc # "done") => ENABLED Next)
  /\ [][/\ StepsLeft(pc') < StepsLeft(pc)
        /\ Len(calls') <= Len(calls) + 1
        /\ \A i \in 1..Len(calls) : calls'[i] = calls[i]]_vars

\* The POST got no answer, and the request ended 502 after that one call.
C9_Witness ==
  /\ pc = "done"
  /\ ~Received
  /\ Len(calls) = 1
  /\ calls[1].method = "POST"
  /\ response.status_code = 502

\* The GET of the audio URL failed.
GetFailed == CallsBy("GET") # {} /\ pc = "done" /\ ~GetSucceeded

\* C10 as stated: a response with a status other than 200 and a non-empty body
\* ends, unless a URL fetch fails, as a 200 to the client, and when it declares
\* an audio content type it is never returned with that content type.
C10_NeverDeclaredType ==
  (Received /\ resp.status_code # 200)
    => /\ (resp.content # <<>> /\ pc = "done" /\ ~GetFailed) => Succeeded
       /\ (Contains(resp.content_type, s_audio) /\ Succeeded)
            => response.media_type # resp.content_type

\* C10, amended: a response with a status other than 200 never takes the
\* direct-audio branch; with a non-empty body it ends, unless a URL fetch
\* fails, as a 200 to the client, whose mime type is one the normalizer
\* assigns itself (audio/mpeg, audio/wav, application/octet-stream) and equals
\* the declared content type only when that happens to be the same text.
C10_StatusOnlyInDirect ==
  (Received /\ resp.status_code # 200)
    => /\ via # "direct"
       /\ Taken = Winner
       /\ (resp.content # <<>> /\ pc = "done" /\ ~GetFailed) => Succeeded
       /\ Succeeded =>
            response.media_type \in {mime_audio_mpeg, mime_audio_wav, fallback_mime}
       /\ (Succeeded /\ via \in {"base64", "nested"}) => response.media_type = MimeOfFormat
       /\ (Succeeded /\ via = "url") => response.media_type = mime_audio_mpeg
       /\ (Succeeded /\ via = "raw") => response.media_type = fallback_mime

\* Status 500 with Content-Type audio/mpeg and a base64 field, format mp3: the
\* audio goes back as audio/mpeg.
C10_Witness ==
  /\ resp.status_code = 500
  /\ resp.content_type = mime_audio_mpeg
  /\ fmt = Str(s_mp3)
  /\ via = "base64"
  /\ Succeeded
  /\ response.media_type = resp.content_type

====
